---------------------------- MODULE Spec2Model ----------------------------
(***************************************************************************)
(* Model of the concurrent peer-session engine of drivasperez/torrent.     *)
(*                                                                         *)
(* One state machine per peer session (src/peer/session.rs), the shared    *)
(* work queue and result sink (src/queues.rs), the work list built from    *)
(* the metainfo (src/torrent_file.rs) and the bitfield view                *)
(* (src/bitfield.rs).                                                      *)
(*                                                                         *)
(* Representation.  A byte vector (Vec<u8>) is kept as the sequence of its *)
(* runs, <<[v |-> byte, n |-> count], ...>>, with no empty run and no two  *)
(* adjacent runs of the same byte, so that a 40,000-byte piece is a short  *)
(* value.  Every operation on a vector is computed on that representation  *)
(* byte-for-byte as the code computes it.                                  *)
(***************************************************************************)
EXTENDS Integers, Sequences, FiniteSets, TLC

VARIABLES
    info,       \* the metainfo: [pieces, piece_length, length] (read-only)
    checked,    \* TRUE: built with overflow checks (debug), FALSE: wrapping (release)
    good,       \* the sessions whose peer is honest and stays connected
    queue,      \* WorkQueue: the descriptors in the channel, oldest first
    sink,       \* every WorkResult sent on save_tx, in order
    sess,       \* per peer: the PeerSession and the position of its task
    fx,         \* the argument and result of a function applied on its own
    closed      \* TRUE once the work queue channel is closed

vars == <<info, checked, good, queue, sink, sess, fx, closed>>

-----------------------------------------------------------------------------
(* Program constants *)

MAX_BLOCK_SIZE == 16384
MAX_BACKLOG == 5
\* Duration::from_secs(30) of recv_message
RECV_TIMEOUT == 30

(* Bounds of the model *)

\* the file of the engine runs: FileLen bytes in pieces of PieceLen bytes
PieceLen == 2
FileLen == 3

\* the single-piece files of the pipeline runs: the 40,000-byte piece of three
\* blocks, and a piece of more than MAX_BACKLOG blocks
ShortPiece == 40000
LongBlocks == 6

\* the longest buffer handed to a function applied on its own
MaxBufLen == 2

\* the metainfos handed to work_queue on its own: files of 1..MaxTotal bytes
\* in pieces of 1..MaxPieceLen bytes
MaxPieceLen == 8
MaxTotal == 10
\* the seconds a receive is followed for
MaxQuiet == 32
\* the messages of a stream
MaxMsgs == 2

Peers == {"p1", "p2"}

Min(a, b) == IF a < b THEN a ELSE b

-----------------------------------------------------------------------------
(* Byte vectors as runs *)

Run(v, n) == IF n = 0 THEN <<>> ELSE <<[v |-> v, n |-> n]>>

RECURSIVE BufLen(_)
BufLen(b) == IF b = <<>> THEN 0 ELSE Head(b).n + BufLen(Tail(b))

\* the canonical form: adjacent runs of one byte merged
RECURSIVE Norm(_)
Norm(b) ==
    IF Len(b) < 2 THEN b
    ELSE IF b[1].v = b[2].v
         THEN Norm(<<[v |-> b[1].v, n |-> b[1].n + b[2].n]>> \o Tail(Tail(b)))
         ELSE <<b[1]>> \o Norm(Tail(b))

\* the first k bytes of b, and b without its first k bytes
RECURSIVE Take(_, _)
Take(b, k) ==
    IF k = 0 \/ b = <<>> THEN <<>>
    ELSE IF Head(b).n <= k THEN <<Head(b)>> \o Take(Tail(b), k - Head(b).n)
         ELSE <<[v |-> Head(b).v, n |-> k]>>

RECURSIVE Drop(_, _)
Drop(b, k) ==
    IF k = 0 \/ b = <<>> THEN b
    ELSE IF Head(b).n <= k THEN Drop(Tail(b), k - Head(b).n)
         ELSE <<[v |-> Head(b).v, n |-> Head(b).n - k]>> \o Tail(b)

\* vec![0; len]
Zeroed(len) == Run(0, len)

\* (&mut buf[offset..]).write_all(&data): copies as many bytes of data as the
\* slice holds; the slice never grows.  offset <= BufLen(buf) is the caller's.
write_all(buf, offset, data) ==
    LET m == Min(BufLen(data), BufLen(buf) - offset)
    IN  Norm(Take(buf, offset) \o Take(data, m) \o Drop(buf, offset + m))

\* Sha1::digest.  SHA-1 is taken to be collision-free: the digest is a code
\* word of the byte string, one number per run.
Sha1(buf) == [i \in 1..Len(Norm(buf)) |-> Norm(buf)[i].n * 256 + Norm(buf)[i].v]

-----------------------------------------------------------------------------
(* src/queues.rs *)

PieceOfWork(idx, hash, length) == [idx |-> idx, hash |-> hash, length |-> length]


\* a verify_buf that accepts every buffer
verify_buf_any(work, buf) == TRUE

verify_buf(work, buf) == work.hash = Sha1(buf)

WorkResult(idx, bytes) == [idx |-> idx, bytes |-> bytes]

-----------------------------------------------------------------------------
(* src/bitfield.rs : a bitfield is a sequence of bytes 0..255, MSB first *)

RECURSIVE Pow2(_)
Pow2(k) == IF k = 0 THEN 1 ELSE 2 * Pow2(k - 1)

\* self[byte_idx] panics when byte_idx is not below the length
index_panics(bf, index) == index \div 8 >= Len(bf)

\* a has_piece that counts the bits of a byte from the low end
has_piece_lsb(bf, index) ==
    LET byte_idx == index \div 8
        offset == index % 8
    IN  (bf[byte_idx + 1] \div Pow2(offset)) % 2 # 0

has_piece(bf, index) ==
    LET byte_idx == index \div 8
        offset == index % 8
    IN  (bf[byte_idx + 1] \div Pow2(7 - offset)) % 2 # 0

\* byte | (1 << k), for a byte 0..255
BitOr(byte, k) == IF (byte \div Pow2(k)) % 2 = 1 THEN byte ELSE byte + Pow2(k)

\* a set_piece that sets nothing
set_piece_nothing(bf, index) == bf

set_piece(bf, index) ==
    LET byte_idx == index \div 8
        offset == index % 8
    IN  [bf EXCEPT ![byte_idx + 1] = BitOr(@, 7 - offset)]

\* a & b, for bytes 0..255
RECURSIVE BitAnd(_, _)
BitAnd(a, b) ==
    IF a = 0 \/ b = 0 THEN 0
    ELSE (a % 2) * (b % 2) + 2 * BitAnd(a \div 2, b \div 2)

\* x << k on a u8
shl(x, k) == (x * Pow2(k)) % 256

unset_piece(bf, index) ==
    LET byte_idx == index \div 8
        offset == index % 8
    IN  [bf EXCEPT ![byte_idx + 1] = BitAnd(@, shl(0, 7 - offset))]

-----------------------------------------------------------------------------
(* src/torrent_file.rs *)

\* piece bounds that do not stop at the end of the file
piece_bounds_unclamped(inf, index) ==
    <<index * inf.piece_length, index * inf.piece_length + inf.piece_length>>

piece_bounds(inf, index) ==
    LET length == inf.piece_length
        begin == index * length
        end == IF begin + length > inf.length THEN inf.length ELSE begin + length
    IN  <<begin, end>>

piece_length(inf, index) == piece_bounds(inf, index)[2] - piece_bounds(inf, index)[1]

\* async_channel::bounded(pieces.len())
capacity(inf) == Len(inf.pieces)

\* the channel as work_queue leaves it: one descriptor per 20-byte hash
work_queue(inf) ==
    [i \in 1..Len(inf.pieces) |->
        PieceOfWork(i - 1, inf.pieces[i], piece_length(inf, i - 1))]

-----------------------------------------------------------------------------
(* src/peer/message.rs : PeerMessage *)

KeepAlive == [t |-> "KeepAlive"]
Choke == [t |-> "Choke"]
Unchoke == [t |-> "Unchoke"]
Interested == [t |-> "Interested"]
NotInterested == [t |-> "NotInterested"]
Have(i) == [t |-> "Have", idx |-> i]
Bitfield(b) == [t |-> "Bitfield", field |-> b]
Request(i, b, l) == [t |-> "Request", idx |-> i, begin |-> b, length |-> l]
Piece(i, o, d) == [t |-> "Piece", idx |-> i, offset |-> o, data |-> d]
Cancel(i, b, l) == [t |-> "Cancel", idx |-> i, begin |-> b, length |-> l]

-----------------------------------------------------------------------------
(* src/peer/message.rs : PeerMessageCodec.  A read or write buffer          *)
(* (BytesMut) is a sequence of bytes 0..255; the data of a Piece message is *)
(* converted between that and its runs.                                     *)

\* the bytes of a vector kept as runs
RECURSIVE Bytes(_)
Bytes(b) ==
    IF b = <<>> THEN <<>>
    ELSE [i \in 1..Head(b).n |-> Head(b).v] \o Bytes(Tail(b))

\* the runs of a sequence of bytes
RECURSIVE Runs(_)
Runs(bs) ==
    IF bs = <<>> THEN <<>>
    ELSE Norm(<<[v |-> Head(bs), n |-> 1]>> \o Runs(Tail(bs)))

\* src.advance(k) and the k bytes it skips
advance(src, k) == SubSeq(src, k + 1, Len(src))
front(src, k) == SubSeq(src, 1, k)

\* a put_u32 that writes the low byte first
put_u32_le(x) ==
    <<x % 256, (x \div 256) % 256, (x \div 65536) % 256, (x \div 16777216) % 256>>

\* put_u32 / get_u32 : big-endian
put_u32(x) ==
    <<(x \div 16777216) % 256, (x \div 65536) % 256, (x \div 256) % 256, x % 256>>

get_u32(src) == src[1] * 16777216 + src[2] * 65536 + src[3] * 256 + src[4]

\* `as u32` of a usize: the value itself, every length here being far below
\* 2^32
as_u32(x) == x

\* ids that count from one
message_id_from_one(item) ==
    CASE item.t = "Choke" -> 1
      [] item.t = "Unchoke" -> 2
      [] item.t = "Interested" -> 3
      [] item.t = "NotInterested" -> 4
      [] item.t = "Have" -> 5
      [] item.t = "Bitfield" -> 6
      [] item.t = "Request" -> 7
      [] item.t = "Piece" -> 8
      [] item.t = "Cancel" -> 9

message_id(item) ==
    CASE item.t = "Choke" -> 0
      [] item.t = "Unchoke" -> 1
      [] item.t = "Interested" -> 2
      [] item.t = "NotInterested" -> 3
      [] item.t = "Have" -> 4
      [] item.t = "Bitfield" -> 5
      [] item.t = "Request" -> 6
      [] item.t = "Piece" -> 7
      [] item.t = "Cancel" -> 8

\* Encoder::encode : the bytes appended to dst
encode_message(item) ==
    CASE item.t = "KeepAlive" -> put_u32(0)
      [] item.t \in {"Choke", "Unchoke", "Interested", "NotInterested"} ->
            put_u32(1) \o <<message_id(item)>>
      [] item.t = "Have" ->
            put_u32(1 + 4) \o <<message_id(item)>> \o put_u32(item.idx)
      [] item.t = "Bitfield" ->
            put_u32(as_u32(1 + Len(item.field))) \o <<message_id(item)>> \o item.field
      [] item.t = "Piece" ->
            put_u32(as_u32(1 + 4 + 4 + BufLen(item.data))) \o <<message_id(item)>>
                \o put_u32(item.idx) \o put_u32(item.offset) \o Bytes(item.data)
      [] item.t \in {"Request", "Cancel"} ->
            put_u32(1 + 4 + 4 + 4) \o <<message_id(item)>>
                \o put_u32(item.idx) \o put_u32(item.begin) \o put_u32(item.length)

\* the outcomes of a decode call: Ok(None), Ok(Some(msg)), Err, a panic;
\* src is the buffer the call leaves
NoMessage == [t |-> "none"]
need_more(src) == [res |-> "none", msg |-> NoMessage, src |-> src]
\* a result that drops what follows the frame in the buffer
decoded_drained(msg, src) == [res |-> "some", msg |-> msg, src |-> <<>>]
decoded(msg, src) == [res |-> "some", msg |-> msg, src |-> src]
decode_err(src) == [res |-> "err", msg |-> NoMessage, src |-> src]
decode_panic == [res |-> "panic", msg |-> NoMessage, src |-> <<>>]

\* the match on message_id, src being the buffer after the id byte; get_u32
\* and copy_to_slice panic when the buffer holds fewer bytes than they read,
\* and message_length - 9 below zero panics (with overflow checks) or asks
\* for a vector longer than isize::MAX, which panics too
decode_body(message_id_, message_length, src) ==
    CASE message_id_ = 0 -> decoded(Choke, src)
      [] message_id_ = 1 -> decoded(Unchoke, src)
      [] message_id_ = 2 -> decoded(Interested, src)
      [] message_id_ = 3 -> decoded(NotInterested, src)
      [] message_id_ = 4 ->
            IF Len(src) < 4 THEN decode_panic
            ELSE decoded(Have(get_u32(src)), advance(src, 4))
      [] message_id_ = 5 ->
            decoded(Bitfield(front(src, message_length - 1)),
                    advance(src, message_length - 1))
      [] message_id_ \in {6, 8} ->
            IF Len(src) < 12 THEN decode_panic
            ELSE LET idx == get_u32(src)
                     begin == get_u32(advance(src, 4))
                     length == get_u32(advance(src, 8))
                 IN  decoded(IF message_id_ = 6 THEN Request(idx, begin, length)
                             ELSE Cancel(idx, begin, length),
                             advance(src, 12))
      [] message_id_ = 7 ->
            IF Len(src) < 8 \/ message_length < 9 THEN decode_panic
            ELSE decoded(Piece(get_u32(src), get_u32(advance(src, 4)),
                               Runs(front(advance(src, 8), message_length - 9))),
                         advance(src, message_length - 1))
      [] OTHER -> decode_err(src)

\* a decoder that waits for one byte more than the frame
decode_message_late(src) ==
    IF Len(src) < 4 THEN need_more(src)
    ELSE IF Len(src) > get_u32(src) + 4
         THEN IF get_u32(src) = 0 THEN decoded(KeepAlive, advance(src, 4))
              ELSE decode_body(src[5], get_u32(src), advance(src, 5))
         ELSE need_more(src)

\* Decoder::decode
decode_message(src) ==
    IF Len(src) < 4 THEN need_more(src)
    ELSE LET message_length == get_u32(src)
             length_size == 4
         IN  IF Len(src) >= message_length + length_size
             THEN IF message_length = 0
                  THEN decoded(KeepAlive, advance(src, length_size))
                  ELSE decode_body(src[length_size + 1], message_length,
                                   advance(src, length_size + 1))
             ELSE need_more(src)

-----------------------------------------------------------------------------
(* src/peer/handshake.rs : HandshakeCodec *)

\* b"BitTorrent protocol"
PROTOCOL_NAME ==
    <<66, 105, 116, 84, 111, 114, 114, 101, 110, 116, 32,
      112, 114, 111, 116, 111, 99, 111, 108>>

\* [v; n]
Filled(v, n) == [i \in 1..n |-> v]

\* Handshake::new
Handshake(info_hash, peer_id) ==
    [info_hash |-> info_hash, peer_id |-> peer_id,
     protocol_name |-> PROTOCOL_NAME, reserved |-> Filled(0, 8)]

\* an encoder that leaves out the reserved bytes
encode_handshake_unreserved(item) ==
    <<Len(item.protocol_name)>> \o item.protocol_name \o item.info_hash \o item.peer_id

\* Encoder::encode : the bytes appended to dst
encode_handshake(item) ==
    <<Len(item.protocol_name)>> \o item.protocol_name \o Filled(0, 8)
        \o item.info_hash \o item.peer_id

\* a decoder that waits for one byte more than the frame
decode_handshake_late(src) ==
    IF src = <<>> THEN need_more(src)
    ELSE IF src[1] # Len(PROTOCOL_NAME) THEN decode_err(src)
    ELSE IF Len(src) > 68
         THEN decoded([info_hash |-> SubSeq(src, 29, 48), peer_id |-> SubSeq(src, 49, 68),
                       protocol_name |-> SubSeq(src, 2, 20), reserved |-> SubSeq(src, 21, 28)],
                      advance(src, 68))
         ELSE need_more(src)

\* Decoder::decode
decode_handshake(src) ==
    IF src = <<>> THEN need_more(src)
    ELSE LET prot_len == src[1]
             payload_len == prot_len + 8 + 20 + 20
         IN  IF prot_len # Len(PROTOCOL_NAME) THEN decode_err(src)
             ELSE IF Len(src) > payload_len
             THEN LET body == advance(src, 1)
                  IN  decoded([info_hash |-> front(advance(body, 19 + 8), 20),
                               peer_id |-> front(advance(body, 19 + 8 + 20), 20),
                               protocol_name |-> front(body, 19),
                               reserved |-> front(advance(body, 19), 8)],
                              advance(body, 19 + 8 + 20 + 20))
             ELSE need_more(src)

-----------------------------------------------------------------------------
(* src/peer/session.rs : the state of one session *)

NoWork == PieceOfWork(-1, <<>>, 0)

\* PieceState::new
PieceState(index, len) ==
    [index |-> index, downloaded |-> 0, requested |-> 0, backlog |-> 0,
     buf |-> Zeroed(len)]

NoState == PieceState(-1, 0)

\* PeerSessionState::default, in a session whose task has not run yet.
\*   work, state : the locals of start_download and attempt_download
\*   reqs        : the Requests written to the peer in the current attempt
\*   acc         : the Piece messages accepted in the current attempt
\*   shake, first: the locals of connect, the handshake frame read from the
\*                 peer and the message recv_message returned after it; they
\*                 go when connect returns Ok, and stay with the error of a
\*                 connect that returns Err
\*   hello       : the messages start_download has sent before its loop
\*   back        : the index of the descriptor the session has just pushed back
\*                 because the peer lacks the piece, -1 once it has popped again
NoShake == [info_hash |-> <<>>, peer_id |-> <<>>, protocol_name |-> <<>>, reserved |-> <<>>]

NewSession ==
    [pc |-> "new", err |-> "", choked |-> TRUE, interested |-> FALSE,
     bitfield |-> <<>>, work |-> NoWork, state |-> NoState,
     reqs |-> <<>>, acc |-> 0, shake |-> NoShake, first |-> NoMessage,
     hello |-> <<>>, back |-> -1]

\* the task returned Err(e): the session and everything it held is dropped
Failed(e) == [NewSession EXCEPT !.pc = "failed", !.err = e]

\* the task panicked: likewise
Panicked(e) == [NewSession EXCEPT !.pc = "panicked", !.err = e]

Live(s) == sess[s].pc \notin {"failed", "panicked"}


\* the cap tested with <= instead of <
backlog_le_max(backlog) == backlog >= 0 /\ backlog <= MAX_BACKLOG

\* backlog is a usize: a stored value below 0 stands for 2^64 + backlog, the
\* value a wrapping subtraction leaves
backlog_lt_max(backlog) == backlog >= 0 /\ backlog < MAX_BACKLOG

-----------------------------------------------------------------------------
(* The peers.  An honest peer has every piece, unchokes and answers each      *)
(* Request, in order, with the bytes of the file.  Any other peer may send    *)
(* any message at any time.                                                   *)

NumPieces == Len(info.pieces)
FullBitfield == <<255>>

\* the bytes of the file: every byte is 1
FileBytes(begin, length) == Run(1, length)

\* what a dishonest peer puts in a Piece message: offsets on a grid of half
\* a piece (at most a block), one offset past the end, and data of one or two
\* grid steps or of the size of the last block
Granule == Min(MAX_BLOCK_SIZE, (info.piece_length + 1) \div 2)

Offsets ==
    {k * Granule : k \in {j \in 0..(info.piece_length \div Granule) :
                            j * Granule <= info.piece_length}}
    \cup {info.piece_length + 1}

Sizes ==
    {x \in {Granule, 2 * Granule, info.piece_length % MAX_BLOCK_SIZE} :
        0 < x /\ x <= Min(info.piece_length, MAX_BLOCK_SIZE)}

AnyMessage ==
    {KeepAlive, Choke, Unchoke, Interested, Request(0, 0, 1)}
    \cup {Have(i) : i \in {0, 1, 8}}
    \cup {Bitfield(b) : b \in {<<>>, <<128>>, FullBitfield}}
    \cup {Piece(i, o, Run(v, n)) :
            i \in 0..NumPieces - 1, o \in Offsets, v \in {1, 2}, n \in Sizes}

HonestMessages(s) ==
    LET p == sess[s]
    IN  IF p.pc = "bitfield" THEN {Bitfield(FullBitfield)}
        ELSE IF p.choked THEN {Unchoke}
        ELSE IF p.acc < Len(p.reqs)
             THEN {Piece(p.reqs[p.acc + 1].idx, p.reqs[p.acc + 1].begin,
                         FileBytes(p.reqs[p.acc + 1].begin, p.reqs[p.acc + 1].length))}
             ELSE {}

Incoming(s) == IF s \in good THEN HonestMessages(s) ELSE AnyMessage

\* the handshake frame the peer sends: an honest peer serves this torrent,
\* another may serve any
PeerShakes(s) ==
    IF s \in good THEN {Handshake(info.info_hash, Filled(45, 20))}
    ELSE {Handshake(h, Filled(45, 20)) : h \in {Filled(1, 20), Filled(2, 20)}}

-----------------------------------------------------------------------------
(* src/peer/session.rs : connect *)

\* a comparison that takes every hash for the torrent's
same_hash_any(a, b) == TRUE

\* peer_shake?.info_hash == self.torrent.info_hash
same_hash(a, b) == a = b

\* the session after the peer's handshake frame
on_handshake(p, peer_shake) ==
    IF same_hash(peer_shake.info_hash, info.info_hash)
    THEN [p EXCEPT !.pc = "bitfield", !.shake = peer_shake]
    ELSE [Failed("Not the same hash") EXCEPT !.shake = peer_shake]

\* a connect that takes any first message for the bitfield
on_first_message_any(p, msg) ==
    [p EXCEPT !.pc = "connected", !.first = msg,
              !.bitfield = IF msg.t = "Bitfield" THEN msg.field ELSE <<>>]

\* the session after the first message recv_message returns
on_first_message(p, msg) ==
    IF msg.t = "Bitfield"
    THEN [p EXCEPT !.pc = "connected", !.first = msg, !.bitfield = msg.field]
    ELSE [Failed("Peer didn't send bitfield") EXCEPT !.shake = p.shake, !.first = msg]

-----------------------------------------------------------------------------
(* src/peer/session.rs : read_message *)


\* the checks on a Piece message without the one on offset + len
piece_error_no_end(state, idx, offset, len) ==
    IF idx # state.index THEN "Incorrect piece index"
    ELSE IF offset > BufLen(state.buf) THEN "Piece offset longer than buffer"
    ELSE ""

\* the three checks on a Piece message, in the order of the code
piece_error(state, idx, offset, len) ==
    IF idx # state.index THEN "Incorrect piece index"
    ELSE IF offset > BufLen(state.buf) THEN "Piece offset longer than buffer"
    ELSE IF offset + len > BufLen(state.buf) THEN "Data too long for piece"
    ELSE ""

\* state.backlog -= 1 on a usize that is 0: a panic with overflow checks
backlog_panics(backlog) == checked /\ backlog = 0

\* a Piece arm that counts the message before it checks it
on_piece_state_counted(state, idx, offset, data) ==
    IF piece_error(state, idx, offset, BufLen(data)) # ""
    THEN [state EXCEPT !.backlog = @ - 1]
    ELSE [state EXCEPT !.buf = write_all(@, offset, data),
                       !.downloaded = @ + BufLen(data),
                       !.backlog = @ - 1]

\* the Piece arm: the PieceState of attempt_download when the arm is left,
\* with an Err before any assignment, or at its end
on_piece_state(state, idx, offset, data) ==
    IF piece_error(state, idx, offset, BufLen(data)) # ""
    THEN state
    ELSE [state EXCEPT !.buf = write_all(@, offset, data),
                       !.downloaded = @ + BufLen(data),
                       !.backlog = @ - 1]

\* the Piece arm: the session after the message, p being the session before
on_piece(p, msg) ==
    LET len == BufLen(msg.data)
        e == piece_error(p.state, msg.idx, msg.offset, len)
    IN  IF e # "" THEN Failed(e)
        ELSE IF backlog_panics(p.state.backlog)
             THEN Panicked("attempt to subtract with overflow")
        ELSE [p EXCEPT !.state = on_piece_state(@, msg.idx, msg.offset, msg.data),
                       !.acc = @ + 1]

\* the match of read_message on a message recv_message returned
on_message(p, msg) ==
    CASE msg.t = "Choke" -> [p EXCEPT !.choked = TRUE]
      [] msg.t = "Unchoke" -> [p EXCEPT !.choked = FALSE]
      [] msg.t = "Have" ->
            IF index_panics(p.bitfield, msg.idx)
            THEN Panicked("index out of bounds")
            ELSE [p EXCEPT !.bitfield = set_piece(@, msg.idx)]
      [] msg.t = "Bitfield" -> [p EXCEPT !.bitfield = msg.field]
      [] msg.t = "Piece" -> on_piece(p, msg)
      [] OTHER -> p

-----------------------------------------------------------------------------
(* src/peer/session.rs : attempt_download *)

\* a request loop that does not look at choked
wants_request_choked(p) ==
    /\ p.state.downloaded < p.work.length
    /\ backlog_lt_max(p.state.backlog)
    /\ p.state.requested < p.work.length

\* the position in the loops of attempt_download, from the loop conditions
wants_request(p) ==
    /\ p.state.downloaded < p.work.length
    /\ ~p.choked
    /\ backlog_lt_max(p.state.backlog)
    /\ p.state.requested < p.work.length

wants_message(p) ==
    /\ p.state.downloaded < p.work.length
    /\ ~wants_request(p)


\* a block size that forgets the short last block
block_size_full(work, state) == MAX_BLOCK_SIZE

block_size(work, state) ==
    IF work.length - state.requested < MAX_BLOCK_SIZE
    THEN work.length - state.requested
    ELSE MAX_BLOCK_SIZE

-----------------------------------------------------------------------------
(* The steps of a session task, one per suspension point *)

Set(s, p) == sess' = [sess EXCEPT ![s] = p]

\* an I/O error, a codec error or the 30 s timeout: only on a peer that is
\* not honest
MayFail(s) == s \notin good

\* PeerSession::new : TcpStream::connect
new(s) ==
    /\ sess[s].pc = "new"
    /\ \/ Set(s, [sess[s] EXCEPT !.pc = "handshake"])
       \/ MayFail(s) /\ Set(s, Failed("connect"))
    /\ UNCHANGED <<info, checked, good, queue, sink, fx, closed>>

\* connect : send the handshake, read the peer's, compare the info hashes
connect_handshake(s) ==
    /\ sess[s].pc = "handshake"
    /\ \/ \E peer_shake \in PeerShakes(s) : Set(s, on_handshake(sess[s], peer_shake))
       \/ MayFail(s) /\ Set(s, Failed("io"))
    /\ UNCHANGED <<info, checked, good, queue, sink, fx, closed>>

\* connect : recv_message skips KeepAlive; the first message must be Bitfield
connect_bitfield(s) ==
    /\ sess[s].pc = "bitfield"
    /\ \/ \E msg \in Incoming(s) :
            IF msg = KeepAlive THEN UNCHANGED sess
            ELSE Set(s, on_first_message(sess[s], msg))
       \/ MayFail(s) /\ Set(s, Failed("io"))
    /\ UNCHANGED <<info, checked, good, queue, sink, fx, closed>>

\* a start that goes to the queue once Unchoke is out
start_download_eager(s) ==
    /\ sess[s].pc = "connected"
    /\ \/ Set(s, [sess[s] EXCEPT !.pc = "pop", !.shake = NoShake, !.first = NoMessage,
                                  !.hello = <<Unchoke>>])
       \/ MayFail(s) /\ Set(s, Failed("io"))
    /\ UNCHANGED <<info, checked, good, queue, sink, fx, closed>>

\* start_download : send_message(Unchoke).await?
start_download(s) ==
    /\ sess[s].pc = "connected"
    /\ \/ Set(s, [sess[s] EXCEPT !.pc = "unchoke_sent", !.shake = NoShake,
                                  !.first = NoMessage, !.hello = Append(@, Unchoke)])
       \/ MayFail(s) /\ Set(s, Failed("io"))
    /\ UNCHANGED <<info, checked, good, queue, sink, fx, closed>>

\* start_download : send_message(Interested).await?, then the while let
send_interested(s) ==
    /\ sess[s].pc = "unchoke_sent"
    /\ \/ Set(s, [sess[s] EXCEPT !.pc = "pop", !.hello = Append(@, Interested)])
       \/ MayFail(s) /\ Set(s, Failed("io"))
    /\ UNCHANGED <<info, checked, good, queue, sink, fx, closed>>

\* a receive that leaves the descriptor in the channel
recv_rest_all(q) == q

\* rx.recv() : the channel without the descriptor received
recv_rest(q) == Tail(q)

\* a pop on the closed channel that is taken for an error of the session
pop_closed_fails(p) == Failed("RecvError")

\* pop() returns Err on the closed, empty channel: `while let Ok(work)` ends
\* and start_download returns Ok(())
pop_closed(p) == [p EXCEPT !.pc = "done"]

\* work_queue.pop(), the has_piece test, and PieceState::new; pop suspends
\* while the channel is empty and open
pop(s) ==
    /\ sess[s].pc = "pop"
    /\ \/ /\ queue # <<>>
          /\ queue' = recv_rest(queue)
          /\ LET work == Head(queue)
                 p == sess[s]
             IN  IF index_panics(p.bitfield, work.idx)
                 THEN Set(s, Panicked("index out of bounds"))
                 ELSE IF ~has_piece(p.bitfield, work.idx)
                 THEN Set(s, [p EXCEPT !.pc = "push", !.work = work, !.back = -1])
                 ELSE Set(s, [p EXCEPT !.pc = "download", !.work = work,
                                       !.state = PieceState(work.idx, work.length),
                                       !.reqs = <<>>, !.acc = 0, !.back = -1])
       \/ /\ queue = <<>>
          /\ closed
          /\ queue' = queue
          /\ Set(s, pop_closed(sess[s]))
    /\ UNCHANGED <<info, checked, good, sink, fx, closed>>


\* a push that drops the descriptor instead of sending it
push_lost(s) ==
    /\ sess[s].pc = "push"
    /\ Set(s, [sess[s] EXCEPT !.pc = "pop", !.work = NoWork, !.state = NoState,
                              !.reqs = <<>>, !.acc = 0])
    /\ UNCHANGED <<info, checked, good, queue, sink, fx, closed>>

\* work_queue.push(work), then continue; a send on the closed channel is an
\* Err, which `?` returns, and a send on the full channel suspends
push(s) ==
    /\ sess[s].pc = "push"
    /\ IF closed
       THEN queue' = queue /\ Set(s, Failed("SendError"))
       ELSE /\ Len(queue) < capacity(info)
            /\ queue' = Append(queue, sess[s].work)
            /\ Set(s, [sess[s] EXCEPT !.pc = "pop", !.work = NoWork, !.state = NoState,
                                      !.reqs = <<>>, !.acc = 0,
                                      !.back = IF sess[s].state = NoState
                                               THEN sess[s].work.idx ELSE -1])
    /\ UNCHANGED <<info, checked, good, sink, fx, closed>>

\* attempt_download : one turn of the inner loop
send_request(s) ==
    LET p == sess[s]
        size == block_size(p.work, p.state)
    IN  /\ p.pc = "download"
        /\ wants_request(p)
        /\ \/ Set(s, [p EXCEPT
                        !.reqs = Append(@, Request(p.work.idx, p.state.requested, size)),
                        !.state.backlog = @ + 1,
                        !.state.requested = @ + size])
           \/ MayFail(s) /\ Set(s, Failed("io"))
        /\ UNCHANGED <<info, checked, good, queue, sink, fx, closed>>

\* attempt_download : read_message
read_message(s) ==
    LET p == sess[s]
    IN  /\ p.pc = "download"
        /\ wants_message(p)
        /\ \/ \E msg \in Incoming(s) :
                IF msg = KeepAlive THEN UNCHANGED sess
                ELSE Set(s, on_message(p, msg))
           \/ MayFail(s) /\ Set(s, Failed("Timed out while receiving message"))
        /\ UNCHANGED <<info, checked, good, queue, sink, fx, closed>>

\* a step that announces the piece whatever the digest
verify_unchecked(s) ==
    LET p == sess[s]
    IN  /\ p.pc = "download"
        /\ p.state.downloaded >= p.work.length
        /\ Set(s, [p EXCEPT !.pc = "have"])
        /\ UNCHANGED <<info, checked, good, queue, sink, fx, closed>>

\* attempt_download returns the buffer; verify_buf
verify(s) ==
    LET p == sess[s]
    IN  /\ p.pc = "download"
        /\ p.state.downloaded >= p.work.length
        /\ IF verify_buf(p.work, p.state.buf)
           THEN Set(s, [p EXCEPT !.pc = "have"])
           ELSE Set(s, [p EXCEPT !.pc = "push"])
        /\ UNCHANGED <<info, checked, good, queue, sink, fx, closed>>

\* a send whose failure closes the work queue
send_have_closing(s) ==
    /\ sess[s].pc = "have"
    /\ \/ Set(s, [sess[s] EXCEPT !.pc = "save"]) /\ closed' = closed
       \/ MayFail(s) /\ Set(s, Failed("io")) /\ closed' = TRUE
    /\ UNCHANGED <<info, checked, good, queue, sink, fx>>

\* send Have(work.idx)
send_have(s) ==
    /\ sess[s].pc = "have"
    /\ \/ Set(s, [sess[s] EXCEPT !.pc = "save"])
       \/ MayFail(s) /\ Set(s, Failed("io"))
    /\ UNCHANGED <<info, checked, good, queue, sink, fx, closed>>

\* an emit that also puts the descriptor back
save_requeue(s) ==
    LET p == sess[s]
    IN  /\ p.pc = "save"
        /\ sink' = Append(sink, WorkResult(p.work.idx, p.state.buf))
        /\ queue' = Append(queue, p.work)
        /\ Set(s, [p EXCEPT !.pc = "pop", !.work = NoWork, !.state = NoState,
                            !.reqs = <<>>, !.acc = 0])
        /\ UNCHANGED <<info, checked, good, fx, closed>>

\* save_tx.send(WorkResult { idx, bytes })
save(s) ==
    LET p == sess[s]
    IN  /\ p.pc = "save"
        /\ sink' = Append(sink, WorkResult(p.work.idx, p.state.buf))
        /\ Set(s, [p EXCEPT !.pc = "pop", !.work = NoWork, !.state = NoState,
                            !.reqs = <<>>, !.acc = 0])
        /\ UNCHANGED <<info, checked, good, queue, fx, closed>>

\* the consumer of the result sink, which counts the results it receives:
\* after piece_count results the work queue is closed
close_queue ==
    /\ ~closed
    /\ Len(sink) >= NumPieces
    /\ closed' = TRUE
    /\ UNCHANGED <<info, checked, good, queue, sink, sess, fx>>

Next ==
    \/ close_queue
    \/ \E s \in Peers :
        \/ new(s)
        \/ connect_handshake(s)
        \/ connect_bitfield(s)
        \/ start_download(s)
        \/ send_interested(s)
        \/ pop(s)
        \/ push(s)
        \/ send_request(s)
        \/ read_message(s)
        \/ verify(s)
        \/ send_have(s)
        \/ save(s)

-----------------------------------------------------------------------------
(* The metainfo of a file of the given length; every piece hash is the     *)
(* digest of that piece of the file                                        *)

PieceCount(pl, total) == (total + pl - 1) \div pl

Torrent(pl, total) ==
    [pieces |-> [i \in 1..PieceCount(pl, total) |->
                    Sha1(FileBytes((i - 1) * pl, Min(pl, total - (i - 1) * pl)))],
     piece_length |-> pl,
     length |-> total,
     info_hash |-> Filled(1, 20)]

Idle == [op |-> "none"]

\* two peers, a file of two pieces of 2 and 1 bytes
Init ==
    /\ info = Torrent(PieceLen, FileLen)
    /\ checked \in BOOLEAN
    /\ good \in SUBSET Peers
    /\ queue = work_queue(info)
    /\ sink = <<>>
    /\ closed = FALSE
    /\ sess = [s \in Peers |-> NewSession]
    /\ fx = Idle

Spec == Init /\ [][Next]_vars

\* the runtime runs every task that is ready: the consumer of the sink
\* closes the queue once it can, and a pop that can return does return
FairSpec ==
    /\ Init
    /\ [][Next]_vars
    /\ WF_vars(close_queue)
    /\ \A s \in Peers : WF_vars(pop(s))

\* one peer (the connection to the other was refused), a file of one piece
\* of several blocks
PipeInit ==
    /\ info \in {Torrent(ShortPiece, ShortPiece), Torrent(LongBlocks * MAX_BLOCK_SIZE, LongBlocks * MAX_BLOCK_SIZE)}
    /\ checked \in BOOLEAN
    /\ good \in {{}, {"p1"}}
    /\ queue = work_queue(info)
    /\ sink = <<>>
    /\ closed = FALSE
    /\ sess = [s \in Peers |-> IF s = "p1" THEN NewSession ELSE Failed("connect")]
    /\ fx = Idle

PipeSpec == PipeInit /\ [][Next]_vars

-----------------------------------------------------------------------------
(* verify_buf applied on its own, to any descriptor and any buffer *)

\* the byte strings of at most MaxBufLen bytes over {0, 1}
FromBytes(bs) == Norm([i \in 1..Len(bs) |-> [v |-> bs[i], n |-> 1]])

SmallBufs == UNION {{FromBytes(bs) : bs \in [1..k -> {0, 1}]} : k \in 0..MaxBufLen}

VerifyInit ==
    /\ info = Torrent(PieceLen, FileLen)
    /\ checked = FALSE
    /\ good = {}
    /\ queue = work_queue(info)
    /\ sink = <<>>
    /\ closed = FALSE
    /\ sess = [s \in Peers |-> NewSession]
    /\ \E b \in SmallBufs, c \in SmallBufs, n \in 0..MaxBufLen :
            fx = [op |-> "call", work |-> PieceOfWork(0, Sha1(c), n), buf |-> b,
                  out |-> FALSE]

call_verify_buf ==
    /\ fx.op = "call"
    /\ fx' = [fx EXCEPT !.op = "done", !.out = verify_buf(fx.work, fx.buf)]
    /\ UNCHANGED <<info, checked, good, queue, sink, sess, closed>>

VerifySpec == VerifyInit /\ [][call_verify_buf]_vars

-----------------------------------------------------------------------------
(* The message codec on its own: one end encodes messages onto the wire,   *)
(* the bytes arrive in the read buffer of the other end one at a time or   *)
(* all at once, and decode is called on the read buffer.                   *)

\* the engine at rest, for the runs of a function on its own
Parked ==
    /\ info = Torrent(PieceLen, FileLen)
    /\ checked = FALSE
    /\ good = {}
    /\ queue = work_queue(info)
    /\ sink = <<>>
    /\ closed = FALSE
    /\ sess = [s \in Peers |-> NewSession]

\* the byte strings of at most MaxBufLen bytes over {0, 1, 255}
SmallBytes == UNION {[1..k -> {0, 1, 255}] : k \in 0..MaxBufLen}

\* indexes and offsets, up to the largest with a first byte below 0x80
U32s == {0, 1, 256, 2147483647}

CodecMessages ==
    {KeepAlive, Choke, Unchoke, Interested, NotInterested}
    \cup {Have(i) : i \in U32s}
    \cup {Bitfield(b) : b \in SmallBytes}
    \cup {Request(i, b, l) : i \in {0, 256}, b \in {0, MAX_BLOCK_SIZE}, l \in {1, MAX_BLOCK_SIZE}}
    \cup {Request(12, 333, 4)}
    \cup {Piece(i, o, Runs(d)) : i \in {0, 256}, o \in {0, MAX_BLOCK_SIZE}, d \in SmallBytes}
    \cup {Cancel(i, b, l) : i \in {0, 256}, b \in {0, MAX_BLOCK_SIZE}, l \in {1, MAX_BLOCK_SIZE}}

\* frames that no encoder writes: every id 0..9 under a length prefix of 1
\* or 2, the payload zero
RawFrames ==
    {put_u32(l) \o <<id>> \o [i \in 1..l - 1 |-> 0] : id \in 0..9, l \in {1, 2}}

NoCall == [res |-> "nocall", msg |-> NoMessage, src |-> <<>>]

\* tosend : the messages still to encode      sent : the messages encoded
\* wire   : bytes written, not yet read       src  : the read buffer
\* before : the read buffer handed to the last decode call, out : its result
\* got    : the messages decoded so far
\* codec  : the codec of the Framed, "handshake" or "message"
\* write_buf : the bytes encoded by this end and not yet flushed
\* carried: the read buffer at the switch of codec
Stream(tosend, wire) ==
    [op |-> "stream", tosend |-> tosend, sent |-> <<>>, wire |-> wire,
     src |-> <<>>, before |-> <<>>, out |-> NoCall, got |-> <<>>,
     codec |-> "message", write_buf |-> <<>>, carried |-> <<>>]

MsgInit ==
    /\ Parked
    /\ \/ \E m \in CodecMessages : fx = Stream(<<m>>, <<>>)
       \/ \E raw \in RawFrames : fx = Stream(<<>>, raw)

call_encode_message ==
    /\ fx.op = "stream"
    /\ fx.tosend # <<>>
    /\ "t" \in DOMAIN Head(fx.tosend)
    /\ fx' = [fx EXCEPT !.tosend = Tail(@),
                        !.sent = Append(@, Head(fx.tosend)),
                        !.wire = @ \o encode_message(Head(fx.tosend))]
    /\ UNCHANGED <<info, checked, good, queue, sink, sess, closed>>

\* a read from the socket: one byte, or all that is there
feed ==
    /\ fx.op = "stream"
    /\ fx.wire # <<>>
    /\ \E k \in {1, Len(fx.wire)} :
            fx' = [fx EXCEPT !.wire = advance(@, k),
                             !.src = @ \o front(fx.wire, k),
                             !.before = <<>>,
                             !.out = NoCall]
    /\ UNCHANGED <<info, checked, good, queue, sink, sess, closed>>

\* the result of a decode call, recorded
after_decode(r) ==
    [fx EXCEPT !.op = IF r.res \in {"err", "panic"} THEN "stopped" ELSE "stream",
               !.src = r.src,
               !.before = fx.src,
               !.out = r,
               !.got = IF r.res = "some" THEN Append(@, r.msg) ELSE @]

call_decode_message ==
    /\ fx.op = "stream"
    /\ fx.codec = "message"
    /\ fx.out.res \in {"nocall", "some"}
    /\ fx' = after_decode(decode_message(fx.src))
    /\ UNCHANGED <<info, checked, good, queue, sink, sess, closed>>

MsgNext == call_encode_message \/ feed \/ call_decode_message

MsgSpec == MsgInit /\ [][MsgNext]_vars

\* streams of several messages, one of each layout of payload
SeqMessages ==
    {KeepAlive, Choke, Have(256), Bitfield(<<1, 255>>), Request(12, 333, 4),
     Piece(256, MAX_BLOCK_SIZE, Runs(<<1, 255>>))}

SeqInit ==
    /\ Parked
    /\ \E n \in 1..MaxMsgs : \E ms \in [1..n -> SeqMessages] : fx = Stream(ms, <<>>)

SeqSpec == SeqInit /\ [][MsgNext]_vars


-----------------------------------------------------------------------------
(* The handshake codec on its own: a handshake is encoded onto the wire,   *)
(* followed or not by a first message; the bytes arrive one at a time or   *)
(* all at once, and the handshake decoder is called on the read buffer.    *)

Hashes == {Filled(1, 20), Filled(2, 20)}

Handshakes == {Handshake(h, id) : h \in Hashes, id \in {Filled(45, 20), Filled(46, 20)}}

\* what may follow the handshake on the wire
FirstMessages == {<<>>, <<KeepAlive>>, <<Bitfield(<<255>>)>>}

\* bytes that do not start a handshake
RawShakes == {<<b>> \o Filled(0, k) : b \in {0, 18, 20}, k \in {0, 68}}

IsHandshake(item) == "info_hash" \in DOMAIN item

\* the local handshake, flushed or still in the write buffer
PendingWrites == {<<>>, encode_handshake(Handshake(Filled(1, 20), Filled(46, 20)))}

HsInit ==
    /\ Parked
    /\ \E w \in PendingWrites :
        \/ \E h \in Handshakes, ms \in FirstMessages :
              fx = [Stream(<<h>> \o ms, <<>>) EXCEPT !.codec = "handshake", !.write_buf = w]
        \/ \E raw \in RawShakes :
              fx = [Stream(<<>>, raw) EXCEPT !.codec = "handshake", !.write_buf = w]

call_encode_handshake ==
    /\ fx.op = "stream"
    /\ fx.tosend # <<>>
    /\ IsHandshake(Head(fx.tosend))
    /\ fx' = [fx EXCEPT !.tosend = Tail(@),
                        !.sent = Append(@, Head(fx.tosend)),
                        !.wire = @ \o encode_handshake(Head(fx.tosend))]
    /\ UNCHANGED <<info, checked, good, queue, sink, sess, closed>>

\* the handshake decoder is the codec until it has yielded a frame
call_decode_handshake ==
    /\ fx.op = "stream"
    /\ fx.codec = "handshake"
    /\ fx.out.res = "nocall"
    /\ fx.got = <<>>
    /\ fx' = after_decode(decode_handshake(fx.src))
    /\ UNCHANGED <<info, checked, good, queue, sink, sess, closed>>

\* src/peer/stream.rs

\* a switch that starts the new Framed on empty buffers
make_message_fresh(old_parts) == [read_buf |-> <<>>, write_buf |-> <<>>]

\* make_message : the parts of the new Framed, on the same io
make_message(old_parts) ==
    [read_buf |-> old_parts.read_buf, write_buf |-> old_parts.write_buf]

\* connect : the handshake frame is in, the stream becomes a message stream
call_make_message ==
    /\ fx.op = "stream"
    /\ fx.codec = "handshake"
    /\ fx.got # <<>>
    /\ LET new_parts == make_message([read_buf |-> fx.src, write_buf |-> fx.write_buf])
       IN  fx' = [fx EXCEPT !.codec = "message",
                            !.src = new_parts.read_buf,
                            !.write_buf = new_parts.write_buf,
                            !.carried = fx.src,
                            !.before = <<>>,
                            !.out = NoCall]
    /\ UNCHANGED <<info, checked, good, queue, sink, sess, closed>>

\* the write buffer goes out to the peer
flush ==
    /\ fx.op = "stream"
    /\ fx.write_buf # <<>>
    /\ fx' = [fx EXCEPT !.write_buf = <<>>]
    /\ UNCHANGED <<info, checked, good, queue, sink, sess, closed>>

HsNext ==
    \/ call_encode_handshake
    \/ call_encode_message
    \/ feed
    \/ call_decode_handshake
    \/ call_make_message
    \/ call_decode_message
    \/ flush

HsSpec == HsInit /\ [][HsNext]_vars

-----------------------------------------------------------------------------
(* The bitfield view on its own: two calls, one after the other, of        *)
(* has_piece, set_piece or unset_piece on a byte buffer                    *)

\* indexes up to the first one that is out of range in the longest buffer
BitIndexes == 0..(8 * MaxBufLen)

NotCalled == [fn |-> "none", index |-> 0, before |-> <<>>, out |-> "unit"]

\* a call on the buffer fx.bf: its name, index, the buffer before it, and
\* what it returned ("true", "false", "unit") or "panic"
Called(fn, index, out) == [fn |-> fn, index |-> index, before |-> fx.bf, out |-> out]

\* the record of one more call, the buffer being bf after it
after_call(call, bf) ==
    [op |-> IF call.out = "panic" THEN "panicked"
            ELSE IF fx.op = "fresh" THEN "once" ELSE "twice",
     bf |-> bf,
     first |-> IF fx.op = "fresh" THEN call ELSE fx.first,
     last |-> call]

BitInit ==
    /\ Parked
    /\ \E bf \in SmallBytes :
            fx = [op |-> "fresh", bf |-> bf, first |-> NotCalled, last |-> NotCalled]

call_has_piece ==
    /\ fx.op \in {"fresh", "once"}
    /\ \E i \in BitIndexes :
            fx' = IF index_panics(fx.bf, i)
                  THEN after_call(Called("has_piece", i, "panic"), fx.bf)
                  ELSE after_call(Called("has_piece", i,
                                         IF has_piece(fx.bf, i) THEN "true" ELSE "false"),
                                  fx.bf)
    /\ UNCHANGED <<info, checked, good, queue, sink, sess, closed>>

call_set_piece ==
    /\ fx.op \in {"fresh", "once"}
    /\ \E i \in BitIndexes :
            fx' = IF index_panics(fx.bf, i)
                  THEN after_call(Called("set_piece", i, "panic"), fx.bf)
                  ELSE after_call(Called("set_piece", i, "unit"), set_piece(fx.bf, i))
    /\ UNCHANGED <<info, checked, good, queue, sink, sess, closed>>

call_unset_piece ==
    /\ fx.op \in {"fresh", "once"}
    /\ \E i \in BitIndexes :
            fx' = IF index_panics(fx.bf, i)
                  THEN after_call(Called("unset_piece", i, "panic"), fx.bf)
                  ELSE after_call(Called("unset_piece", i, "unit"), unset_piece(fx.bf, i))
    /\ UNCHANGED <<info, checked, good, queue, sink, sess, closed>>

BitNext == call_has_piece \/ call_set_piece \/ call_unset_piece

BitSpec == BitInit /\ [][BitNext]_vars

-----------------------------------------------------------------------------
(* work_queue on its own, on the metainfo of a file of any small length    *)
(* and on the one of 1000 bytes in pieces of 300                           *)

QueueInit ==
    /\ \/ \E pl \in 1..MaxPieceLen, total \in 1..MaxTotal : info = Torrent(pl, total)
       \/ info = Torrent(300, 1000)
    /\ checked = FALSE
    /\ good = {}
    /\ queue = <<>>
    /\ sink = <<>>
    /\ closed = FALSE
    /\ sess = [s \in Peers |-> NewSession]
    /\ fx = [op |-> "work_queue"]

call_work_queue ==
    /\ fx.op = "work_queue"
    /\ queue' = work_queue(info)
    /\ fx' = [op |-> "done"]
    /\ UNCHANGED <<info, checked, good, sink, sess, closed>>

QueueSpec == QueueInit /\ [][call_work_queue]_vars

-----------------------------------------------------------------------------
(* src/peer/session.rs : recv_message, one call of it, second by second *)

\* conn  : "open", or "closed" once the peer has closed the connection
\* timer : the seconds since the time::sleep of this turn of the loop was made
\* quiet : the seconds since the call, or since the last frame from the peer
\* out   : "pending" in the loop, or how recv_message returned
Recv(conn) == [op |-> "recv", conn |-> conn, timer |-> 0, quiet |-> 0, out |-> "pending"]

RecvInit ==
    /\ Parked
    /\ \E conn \in {"open", "closed"} : fx = Recv(conn)

InRecv == fx.op = "recv" /\ fx.out = "pending"

\* a second passes in select!, neither branch being ready
tick ==
    /\ InRecv
    /\ fx.timer < RECV_TIMEOUT
    /\ fx.quiet < MaxQuiet
    /\ fx' = [fx EXCEPT !.timer = @ + 1, !.quiet = @ + 1]
    /\ UNCHANGED <<info, checked, good, queue, sink, sess, closed>>

\* _ = &mut timeout
timed_out ==
    /\ InRecv
    /\ fx.timer = RECV_TIMEOUT
    /\ fx' = [fx EXCEPT !.out = "Timed out while receiving message"]
    /\ UNCHANGED <<info, checked, good, queue, sink, sess, closed>>

\* stream.next() is None, the stream being at its end: continue, and the
\* next turn of the loop makes a new sleep
next_none ==
    /\ InRecv
    /\ fx.conn = "closed"
    /\ fx' = [fx EXCEPT !.timer = 0]
    /\ UNCHANGED <<info, checked, good, queue, sink, sess, closed>>

\* stream.next() is KeepAlive: continue, likewise
next_keepalive ==
    /\ InRecv
    /\ fx.conn = "open"
    /\ fx' = [fx EXCEPT !.timer = 0, !.quiet = 0]
    /\ UNCHANGED <<info, checked, good, queue, sink, sess, closed>>

\* stream.next() is another message: return Ok(msg)
next_message ==
    /\ InRecv
    /\ fx.conn = "open"
    /\ fx' = [fx EXCEPT !.out = "message"]
    /\ UNCHANGED <<info, checked, good, queue, sink, sess, closed>>

\* stream.next() is Some(Err): res? returns it
next_err ==
    /\ InRecv
    /\ fx.conn = "open"
    /\ fx' = [fx EXCEPT !.out = "error"]
    /\ UNCHANGED <<info, checked, good, queue, sink, sess, closed>>

\* the peer closes the connection
peer_close ==
    /\ InRecv
    /\ fx.conn = "open"
    /\ fx' = [fx EXCEPT !.conn = "closed"]
    /\ UNCHANGED <<info, checked, good, queue, sink, sess, closed>>

RecvNext ==
    \/ tick
    \/ timed_out
    \/ next_none
    \/ next_keepalive
    \/ next_message
    \/ next_err
    \/ peer_close

RecvSpec == RecvInit /\ [][RecvNext]_vars

-----------------------------------------------------------------------------
(* Claims *)

Descriptor(idx) == work_queue(info)[idx + 1]
PieceIdxs == 0..NumPieces - 1
Emitted(idx) == \E k \in 1..Len(sink) : sink[k].idx = idx
InQueue(idx) == \E k \in 1..Len(queue) : queue[k].idx = idx
Stepped(s) == sess'[s] # sess[s]

\* C1: every WorkResult on the sink carries the bytes of a piece of the work
\* list whose SHA-1 is that piece's expected hash and whose length is that
\* piece's length, whatever the peers send.
C1_SinkVerified ==
    \A k \in 1..Len(sink) :
        /\ sink[k].idx \in PieceIdxs
        /\ Sha1(sink[k].bytes) = Descriptor(sink[k].idx).hash
        /\ BufLen(sink[k].bytes) = Descriptor(sink[k].idx).length

\* every piece emitted, by sessions of dishonest peers only
C1_Witness == good = {} /\ \A idx \in PieceIdxs : Emitted(idx)

\* no session can take a step: each has ended or waits in pop on an empty queue
AtRest == \A s \in Peers : ~Live(s) \/ (sess[s].pc = "pop" /\ queue = <<>>)

NoPanic == \A s \in Peers : sess[s].pc # "panicked"

\* C2: with a session that stays connected to an honest peer, every piece is
\* eventually emitted even when other sessions fail; so when nothing can move
\* any more (and the sessions that ended did so with an error, none with a
\* panic), every piece index has been emitted.
C2_AllEmittedAtRest ==
    ((\E s \in good : Live(s)) /\ AtRest /\ NoPanic)
    => \A idx \in PieceIdxs : Emitted(idx)

\* C3: every descriptor not yet emitted is in the work queue or held by a
\* live session: a session that leaves a piece attempt with an error (a
\* timeout, a wrong index, an overflow, an I/O or codec error) puts it back.
C3_NoDescriptorLost ==
    NoPanic =>
        \A idx \in PieceIdxs :
            \/ Emitted(idx)
            \/ InQueue(idx)
            \/ \E s \in Peers : Live(s) /\ sess[s].work.idx = idx

\* C4: a buffer that fails verification sends the session to the push of its
\* descriptor (no Have, nothing on the sink, the session stays alive); the
\* push puts that descriptor at the back of the queue and returns to pop; the
\* sink grows only by the one WorkResult of a session that verified its
\* buffer and sent Have, and that session then lets the descriptor go.
C4_IntegrityFailureRequeues ==
    [][\A s \in Peers :
        LET p == sess[s]
            q == sess'[s]
        IN  /\ (p.pc = "download" /\ p.state.downloaded >= p.work.length
                  /\ Sha1(p.state.buf) # p.work.hash /\ Stepped(s))
               => (q.pc = "push" /\ q.work = p.work /\ sink' = sink /\ queue' = queue)
            /\ (p.pc = "push" /\ Stepped(s))
               => (q.pc = "pop" /\ q.work = NoWork /\ sink' = sink
                     /\ queue' = Append(queue, p.work))
            /\ (p.pc = "save" /\ Stepped(s))
               => (sink' = Append(sink, WorkResult(p.work.idx, p.state.buf))
                     /\ Sha1(p.state.buf) = p.work.hash
                     /\ q.pc = "pop" /\ q.work = NoWork)
            /\ (sink' # sink) => \E t \in Peers : sess[t].pc = "save" /\ Stepped(t)
      ]_vars

\* a session about to push back a piece it downloaded in full and that failed
\* verification, while that piece's index is not on the sink
C4_Witness ==
    \E s \in Peers :
        /\ sess[s].pc = "push"
        /\ sess[s].state.downloaded >= sess[s].work.length
        /\ sess[s].work.length > 0
        /\ ~Emitted(sess[s].work.idx)

\* the bit of index is set in bf (a bit the bitfield does not hold is not set)
BitSet(bf, index) == ~index_panics(bf, index) /\ has_piece(bf, index)

\* C5: a session that pops a descriptor whose bit is not set in the remote
\* bitfield goes on to push it back, and a piece attempt (hence any Request)
\* starts only for a descriptor whose bit is set.
C5_MissingPieceRequeued ==
    [][\A s \in Peers :
        (sess[s].pc = "pop" /\ Stepped(s))
        => IF BitSet(sess[s].bitfield, Head(queue).idx)
           THEN sess'[s].pc = "download"
           ELSE sess'[s].pc = "push" /\ sess'[s].work = Head(queue)
                  /\ sess'[s].reqs = <<>>
      ]_vars

\* the Requests of the current attempt that no accepted Piece has answered
Outstanding(s) == Len(sess[s].reqs) - sess[s].acc

\* C6: at most MAX_BACKLOG Requests of a piece attempt are outstanding.
C6_BacklogCap == \A s \in Peers : Outstanding(s) <= MAX_BACKLOG

\* the cap is reached again after a Piece was accepted: the sixth Request
\* went out only once one of the first five was answered
C6_Witness ==
    \E s \in Peers :
        /\ Outstanding(s) = MAX_BACKLOG
        /\ sess[s].acc > 0
        /\ Len(sess[s].reqs) > MAX_BACKLOG

BlockCount(n) == (n + MAX_BLOCK_SIZE - 1) \div MAX_BLOCK_SIZE

\* C7: the Requests of an attempt are, in order, the blocks of the piece:
\* the k-th is (16384 (k-1), min(16384, n - 16384 (k-1))); requested is the
\* end of the last one; there are ceil(n / 16384) of them once requested = n,
\* and never more.
C7_RequestsAreTheBlocks ==
    \A s \in Peers :
        LET p == sess[s]
            n == p.work.length
        IN  p.pc \in {"download", "have", "save"} =>
              /\ \A k \in 1..Len(p.reqs) :
                    p.reqs[k] = Request(p.work.idx, (k - 1) * MAX_BLOCK_SIZE,
                                        Min(MAX_BLOCK_SIZE, n - (k - 1) * MAX_BLOCK_SIZE))
              /\ Len(p.reqs) <= BlockCount(n)
              /\ p.state.requested = Min(n, Len(p.reqs) * MAX_BLOCK_SIZE)
              /\ (p.state.requested = n <=> Len(p.reqs) = BlockCount(n))
              /\ (s \in good /\ p.pc \in {"have", "save"}) => p.state.requested = n

\* the three Requests of the 40,000-byte piece
C7_Witness ==
    \E s \in Peers :
        /\ sess[s].work.length = 40000
        /\ sess[s].reqs = <<Request(0, 0, 16384), Request(0, 16384, 16384),
                            Request(0, 32768, 7232)>>

\* C8: downloaded <= requested <= length in every state of a piece attempt
\* (here: of an attempt whose backlog counter has not wrapped below zero).
C8_CountersOrdered ==
    \A s \in Peers :
        (sess[s].pc = "download" /\ sess[s].state.backlog >= 0) =>
            /\ sess[s].state.downloaded <= sess[s].state.requested
            /\ sess[s].state.requested <= sess[s].work.length

\* C9: the assembly buffer always has the length of the piece; a Piece
\* message changes it only if its index is the piece's and offset + len is
\* within the piece, and then only the bytes [offset, offset + len); any
\* other Piece message ends the session without a write.
C9_WritesInsideThePiece ==
    \A s \in Peers :
        LET p == sess[s]
        IN  /\ p.pc \in {"download", "have", "save"}
               => BufLen(p.state.buf) = p.work.length
            /\ (p.pc = "download" /\ wants_message(p)) =>
                 \A msg \in {m \in AnyMessage : m.t = "Piece"} :
                    LET q == on_message(p, msg)
                        len == BufLen(msg.data)
                    IN  IF msg.idx = p.work.idx /\ msg.offset + len <= p.work.length
                        THEN q.pc = "download" =>
                               /\ BufLen(q.state.buf) = p.work.length
                               /\ Take(q.state.buf, msg.offset)
                                    = Take(p.state.buf, msg.offset)
                               /\ Drop(q.state.buf, msg.offset + len)
                                    = Drop(p.state.buf, msg.offset + len)
                        ELSE q.pc = "failed" /\ q.state = NoState

\* one session ended on a Piece that runs past the end of the piece, another
\* has written an accepted Piece into its buffer
C9_Witness ==
    \E s, t \in Peers :
        /\ sess[s].err = "Data too long for piece"
        /\ sess[t].pc = "download"
        /\ sess[t].acc > 0
        /\ sess[t].state.buf # Zeroed(sess[t].work.length)

\* C10: verify_buf is true exactly when the SHA-1 of the buffer is the
\* expected hash and the buffer has the descriptor's length.
C10_VerifyChecksHashAndLength ==
    fx.op = "done" =>
        (fx.out <=> (Sha1(fx.buf) = fx.work.hash /\ BufLen(fx.buf) = fx.work.length))

\* C19: a session that reads a handshake frame whose info_hash is not the
\* torrent's ends there with the error "Not the same hash": it holds no
\* bitfield and no work, it has read no message, the queue and the sink are
\* as they were, and it never moves again; a session enters message framing
\* (awaits the bitfield) only from the handshake, on a matching info_hash.
C19_HashMismatchEnds ==
    [][\A s \in Peers :
        LET p == sess[s]
            q == sess'[s]
        IN  /\ (p.pc = "handshake" /\ Stepped(s)) =>
                  /\ queue' = queue
                  /\ sink' = sink
                  /\ IF q.shake # NoShake /\ q.shake.info_hash = info.info_hash
                     THEN q = [p EXCEPT !.pc = "bitfield", !.shake = q.shake]
                     ELSE /\ q.pc = "failed"
                          /\ q.shake # NoShake => q.err = "Not the same hash"
                          /\ q.bitfield = <<>>
                          /\ q.first = NoMessage
                          /\ q.work = NoWork
            /\ (q.pc = "bitfield" /\ Stepped(s)) => p.pc = "handshake"
            /\ p.pc = "failed" => q = p
      ]_vars

\* a session ended by a handshake for another torrent, the queue untouched
C19_Witness ==
    \E s \in Peers :
        /\ sess[s].pc = "failed"
        /\ sess[s].err = "Not the same hash"
        /\ sess[s].shake.info_hash = Filled(2, 20)
        /\ info.info_hash = Filled(1, 20)
        /\ queue = work_queue(info)

\* C20: the session that awaits the bitfield reads one message (KeepAlive
\* apart): a Bitfield is stored as the remote bitfield and the session goes on
\* to send Unchoke and Interested; on any other message the session ends with
\* the error "Peer didn't send bitfield", holding no work, the queue and the
\* sink as they were, and it never moves again; Unchoke and Interested are
\* sent, and work popped, only after a Bitfield was stored.
C20_BitfieldFirst ==
    [][\A s \in Peers :
        LET p == sess[s]
            q == sess'[s]
        IN  /\ (p.pc = "bitfield" /\ Stepped(s)) =>
                  /\ queue' = queue
                  /\ sink' = sink
                  /\ IF q.first # NoMessage /\ q.first.t = "Bitfield"
                     THEN q = [p EXCEPT !.pc = "connected", !.first = q.first,
                                        !.bitfield = q.first.field]
                     ELSE /\ q.pc = "failed"
                          /\ q.first # NoMessage => q.err = "Peer didn't send bitfield"
                          /\ q.bitfield = <<>>
                          /\ q.work = NoWork
            /\ (q.pc = "connected" /\ Stepped(s)) => p.pc = "bitfield"
            /\ (q.pc = "unchoke_sent" /\ Stepped(s))
                  => (p.pc = "connected" /\ p.first.t = "Bitfield"
                        /\ queue' = queue)
            /\ (q.pc = "pop" /\ p.pc \notin {"pop", "push", "save"} /\ Stepped(s))
                  => (p.pc = "unchoke_sent" /\ queue' = queue)
            /\ (p.pc \in {"new", "handshake", "bitfield", "connected", "unchoke_sent",
                          "failed"})
                  => (queue' = queue \/ \E t \in Peers \ {s} : Stepped(t))
            /\ p.pc = "failed" => q = p
      ]_vars

\* a session ended by a Have received in place of the bitfield, the queue
\* untouched
C20_Witness ==
    \E s \in Peers :
        /\ sess[s].pc = "failed"
        /\ sess[s].err = "Peer didn't send bitfield"
        /\ sess[s].first = Have(0)
        /\ queue = work_queue(info)

AllEmitted == \A idx \in PieceIdxs : Emitted(idx)

\* C21: the work queue is closed once the last verified piece has been
\* emitted, and only then, drained, and for good; from then on a session in
\* pop is never stuck: while all pieces are emitted, either the close is
\* still to come or its pop can return, and the pop on the closed queue makes
\* start_download return success (the session is done, not failed), after
\* which the session does nothing more; so once all pieces are emitted the
\* queue is eventually closed and eventually no session is left in pop.
C21_ClosedQueueEndsSessions ==
    /\ [](closed => (AllEmitted /\ queue = <<>>))
    /\ [](\A s \in Peers :
            (AllEmitted /\ sess[s].pc = "pop") => (ENABLED close_queue \/ ENABLED pop(s)))
    /\ [][/\ closed => closed'
          /\ closed' => (closed \/ AllEmitted)
          /\ \A s \in Peers :
                /\ (closed /\ sess[s].pc = "pop" /\ Stepped(s)) => sess'[s].pc = "done"
                /\ sess[s].pc = "done" => sess'[s] = sess[s]
                /\ (sess'[s].pc = "done" /\ Stepped(s)) => (closed /\ sess[s].pc = "pop")
      ]_vars
    /\ AllEmitted ~> closed
    /\ AllEmitted ~> (\A s \in Peers : sess[s].pc # "pop")

\* every piece emitted, the queue closed, both sessions returned from
\* start_download with success
C21_Witness ==
    /\ closed
    /\ AllEmitted
    /\ \A s \in Peers : sess[s].pc = "done"

\* C24: the backlog of an attempt never goes below zero, and a Piece message
\* that arrives when it is 0 does not crash the session.
C24_BacklogNeverUnderflows ==
    \A s \in Peers :
        /\ sess[s].state.backlog >= 0
        /\ sess[s].err # "attempt to subtract with overflow"

\* C26: no Request is sent while the session is choked: choked is true from
\* the start and becomes false only on an Unchoke received, and a step that
\* sends a Request starts and ends in a state that is not choked.
C26_NoRequestWhileChoked ==
    /\ [](\A s \in Peers : sess[s].pc \in {"new", "handshake", "bitfield", "connected"}
                                => (sess[s].choked /\ sess[s].reqs = <<>>))
    /\ [][\A s \in Peers :
            /\ Len(sess'[s].reqs) > Len(sess[s].reqs)
                    => (~sess[s].choked /\ ~sess'[s].choked)
            /\ (sess[s].choked /\ ~sess'[s].choked)
                    => (sess[s].pc = "download" /\ sess'[s] = on_message(sess[s], Unchoke))
         ]_vars

\* a session choked again in the middle of a piece: it has sent Requests, has
\* room in its backlog and bytes left to ask for, and sends nothing
C26_Witness ==
    \E s \in Peers :
        /\ sess[s].pc = "download"
        /\ sess[s].choked
        /\ sess[s].reqs # <<>>
        /\ sess[s].state.backlog \in 0..(MAX_BACKLOG - 1)
        /\ sess[s].state.requested < sess[s].work.length
        /\ ~ENABLED send_request(s)

\* C27: a Piece message whose index is not the index of the piece being
\* assembled makes the session fail with "Incorrect piece index" and leaves
\* the buffer and the counters downloaded, requested and backlog as they
\* were; a session fails so only on such a message during a download.
C27_WrongIndexFails ==
    /\ [](\A s \in Peers :
            (sess[s].pc = "download" /\ wants_message(sess[s])) =>
                \A msg \in Incoming(s) :
                    (msg.t = "Piece" /\ msg.idx # sess[s].state.index) =>
                        /\ on_message(sess[s], msg) = Failed("Incorrect piece index")
                        /\ on_piece_state(sess[s].state, msg.idx, msg.offset, msg.data)
                                = sess[s].state)
    /\ [][\A s \in Peers :
            (sess[s].err = "" /\ sess'[s].err = "Incorrect piece index") =>
                /\ sess[s].pc = "download"
                /\ \E msg \in Incoming(s) :
                        /\ msg.t = "Piece"
                        /\ msg.idx # sess[s].state.index
                        /\ sess'[s] = on_message(sess[s], msg)
         ]_vars

\* a session that failed on a Piece message for another index
C27_Witness ==
    \E s \in Peers : sess[s].pc = "failed" /\ sess[s].err = "Incorrect piece index"

\* C28: a session waiting for a message returns a message or ends with an
\* error; it ends with the timeout once 30 s have passed without a message,
\* so that it is never found still waiting after more than 30 s in which
\* nothing came from the peer, the peer having closed the connection or not.
C28_RecvTerminates == InRecv => fx.quiet <= RECV_TIMEOUT

\* C29: a session that ends with an error affects only itself: the step
\* that fails it leaves the work queue, its being open or closed, the result
\* sink and every other session as they were, and beside a failed session
\* another one can still pop what is in the queue, push and emit.
C29_FailureIsLocal ==
    /\ [][\A s \in Peers :
            (sess[s].pc # "failed" /\ sess'[s].pc = "failed") =>
                /\ queue' = queue
                /\ closed' = closed
                /\ sink' = sink
                /\ \A t \in Peers \ {s} : sess'[t] = sess[t]
         ]_vars
    /\ [](\A s \in Peers : \A t \in Peers \ {s} :
            sess[s].pc = "failed" =>
                /\ (sess[t].pc = "pop" /\ queue # <<>>) => ENABLED pop(t)
                /\ sess[t].pc = "push" => ENABLED push(t)
                /\ (sess[t].pc = "push" /\ Len(sink) < NumPieces) => ~closed
                /\ sess[t].pc = "save" => ENABLED save(t))

\* one session failed while it waited for the bitfield, and the other
\* emitted every piece and ended on the closed queue
C29_Witness ==
    \E s \in Peers : \E t \in Peers \ {s} :
        /\ sess[s].pc = "failed"
        /\ sess[s].err = "Peer didn't send bitfield"
        /\ sess[t].pc = "done"
        /\ AllEmitted

\* C30: the work queue never holds more descriptors than piece_count, its
\* capacity, and a session about to requeue a descriptor always finds room:
\* its push does not suspend.
C30_QueueWithinCapacity ==
    /\ Len(queue) <= NumPieces
    /\ capacity(info) = NumPieces
    /\ \A s \in Peers :
        sess[s].pc = "push" => (Len(queue) < capacity(info) /\ ENABLED push(s))

\* the queue is full again after a requeue
C30_Witness ==
    /\ Len(queue) = NumPieces
    /\ queue # work_queue(info)
    /\ ~closed

\* C31: a session sends Unchoke and then Interested before it pops a
\* descriptor and before it sends a Request; while it has not sent both it
\* holds no work, has requested nothing and takes nothing from the queue,
\* also when one of the two sends fails.
C31_UnchokeInterestedFirst ==
    /\ [](\A s \in Peers :
            /\ sess[s].pc \in {"pop", "push", "download", "have", "save", "done"}
                    => sess[s].hello = <<Unchoke, Interested>>
            /\ sess[s].pc = "unchoke_sent" => sess[s].hello = <<Unchoke>>
            /\ sess[s].pc \in {"new", "handshake", "bitfield", "connected"}
                    => sess[s].hello = <<>>
            /\ sess[s].hello # <<Unchoke, Interested>>
                    => (sess[s].work = NoWork /\ sess[s].reqs = <<>>))
    /\ [][\A s \in Peers :
            (sess[s].pc \in {"connected", "unchoke_sent"} /\ Stepped(s))
                => (queue' = queue /\ sess'[s].work = NoWork)
         ]_vars

\* a session that has sent both, popped a descriptor and sent a Request
C31_Witness ==
    \E s \in Peers :
        /\ sess[s].pc = "download"
        /\ sess[s].hello = <<Unchoke, Interested>>
        /\ sess[s].reqs # <<>>

\* C32: for a piece a session completes, the buffer is verified, then
\* Have(index) is sent, then the WorkResult goes to the sink: a session is
\* about to send Have only with a buffer that passed verification, it is
\* about to emit only after it has sent Have for the same descriptor and
\* buffer, and the sink grows only by the result of a session so placed.
C32_VerifyHaveEmit ==
    /\ [](\A s \in Peers :
            sess[s].pc \in {"have", "save"} => verify_buf(sess[s].work, sess[s].state.buf))
    /\ [][/\ \A s \in Peers :
                /\ (sess'[s].pc = "have" /\ Stepped(s)) =>
                        /\ sess[s].pc = "download"
                        /\ sess[s].state.downloaded >= sess[s].work.length
                        /\ verify_buf(sess[s].work, sess[s].state.buf)
                        /\ sess'[s].work = sess[s].work
                        /\ sess'[s].state = sess[s].state
                /\ (sess'[s].pc = "save" /\ Stepped(s)) =>
                        /\ sess[s].pc = "have"
                        /\ sess'[s].work = sess[s].work
                        /\ sess'[s].state = sess[s].state
          /\ sink' # sink =>
                \E s \in Peers :
                    /\ sess[s].pc = "save"
                    /\ Stepped(s)
                    /\ sink' = Append(sink, WorkResult(sess[s].work.idx, sess[s].state.buf))
         ]_vars

\* the second piece verified and announced, the first one emitted
C32_Witness ==
    \E s \in Peers :
        /\ sess[s].pc = "save"
        /\ Len(sink) = 1
        /\ sink[1].idx # sess[s].work.idx

\* C33: a session that has pushed back descriptor k because its peer lacks
\* piece k pops, next, a descriptor other than k.
C33_PopsAnotherPiece ==
    [][\A s \in Peers :
        (sess[s].pc = "pop" /\ sess[s].back >= 0 /\ sess'[s].work # NoWork)
            => sess'[s].work.idx # sess[s].back
      ]_vars

\* C34: during a piece attempt a message other than Piece changes only what
\* it names: Choke and Unchoke the choked flag, Have and Bitfield the remote
\* bitfield, Request, Cancel, Interested and NotInterested nothing; none of
\* them changes the buffer or the counters, and none ends the session.
C34_DispatchFrame ==
    \A s \in Peers :
        (sess[s].pc = "download" /\ wants_message(sess[s])) =>
            \A msg \in Incoming(s) :
                LET p == sess[s]
                    q == on_message(p, msg)
                IN  msg.t \notin {"Piece", "KeepAlive"} =>
                        /\ q.pc = "download"
                        /\ q.state = p.state
                        /\ msg.t \in {"Choke", "Unchoke"} => q = [p EXCEPT !.choked = q.choked]
                        /\ msg.t \in {"Have", "Bitfield"} => q = [p EXCEPT !.bitfield = q.bitfield]
                        /\ msg.t \in {"Request", "Cancel", "Interested", "NotInterested"} => q = p

\* C35: once a Bitfield message has been accepted, at connect or during a
\* download, the stored remote bitfield has at least ceil(piece_count / 8)
\* bytes, so that has_piece on a popped descriptor is within bounds.
C35_BitfieldLongEnough ==
    \A s \in Peers :
        sess[s].pc \in {"connected", "unchoke_sent", "pop", "push", "download",
                        "have", "save", "done"}
            => /\ Len(sess[s].bitfield) >= (NumPieces + 7) \div 8
               /\ \A i \in 0..NumPieces - 1 : ~index_panics(sess[s].bitfield, i)

\* the copies of the descriptor of piece i: in the work queue, held by a
\* session, and emitted
Copies(i) ==
    Cardinality({k \in 1..Len(queue) : queue[k].idx = i})
    + Cardinality({s \in Peers : sess[s].work.idx = i})
    + Cardinality({k \in 1..Len(sink) : sink[k].idx = i})

\* C38: descriptors are never duplicated: for every piece index the copies
\* of its descriptor in the queue, the sessions holding it and the results
\* emitted for it number at most 1, so no two sessions download the same
\* piece at once and no index is emitted twice.
C38_NoDuplicates ==
    /\ \A i \in 0..NumPieces - 1 : Copies(i) <= 1
    /\ \A s \in Peers : \A t \in Peers \ {s} :
            sess[s].work # NoWork => sess[s].work.idx # sess[t].work.idx
    /\ \A j \in 1..Len(sink) : \A k \in 1..Len(sink) : sink[j].idx = sink[k].idx => j = k

\* two sessions downloading at once, each its own piece
C38_Witness ==
    /\ \A s \in Peers : sess[s].pc = "download" /\ sess[s].reqs # <<>>
    /\ \A i \in 0..NumPieces - 1 : Copies(i) = 1
    /\ queue = <<>>

\* the buffer of an attempt starts as zeros and every Piece payload, from an
\* honest peer or not, is made of bytes other than zero: a zero byte in the
\* buffer is a byte that no accepted Piece message has written
Unwritten(buf) == \E k \in 1..Len(buf) : buf[k].v = 0

\* C39: when attempt_download leaves its loop, downloaded >= length, every
\* byte of the piece has been written by an accepted Piece message; stated
\* for the attempts in which every accepted Piece answered a Request, so
\* that backlog never went below zero.
C39_DownloadedMeansCovered ==
    \A s \in Peers :
        (/\ sess[s].pc = "download"
         /\ sess[s].state.downloaded >= sess[s].work.length
         /\ sess[s].acc <= Len(sess[s].reqs)
         /\ sess[s].state.backlog = Len(sess[s].reqs) - sess[s].acc)
            => ~Unwritten(sess[s].state.buf)

-----------------------------------------------------------------------------
(* Claims on the codecs *)

\* the read buffer held exactly the encoding of the one message sent when
\* decode was last called
ExactlyOne ==
    /\ fx.op = "stream"
    /\ Len(fx.sent) = 1
    /\ fx.out.res # "nocall"
    /\ fx.before = encode_message(fx.sent[1])

\* C11: decoding a buffer that holds exactly encode(m) yields m and leaves
\* the buffer empty, for KeepAlive and every message of id 0..8.
C11_MessageRoundTrip ==
    ExactlyOne => (fx.out.res = "some" /\ fx.out.msg = fx.sent[1] /\ fx.src = <<>>)

\* a Piece message with a payload of two different bytes went round
C11_Witness ==
    /\ ExactlyOne
    /\ fx.out.msg = Piece(256, MAX_BLOCK_SIZE, Runs(<<1, 255>>))
    /\ fx.src = <<>>

\* the four bytes of n, most significant first
BigEndian(n) == <<n \div 16777216, (n \div 65536) % 256, (n \div 256) % 256, n % 256>>

\* the id the protocol gives a message, and the payload: its numeric fields
\* in order, each big-endian, then its bytes
WireId(m) ==
    CHOOSE i \in 0..8 :
        <<"Choke", "Unchoke", "Interested", "NotInterested", "Have",
          "Bitfield", "Request", "Piece", "Cancel">>[i + 1] = m.t

WirePayload(m) ==
    IF m.t = "Have" THEN BigEndian(m.idx)
    ELSE IF m.t = "Bitfield" THEN m.field
    ELSE IF m.t \in {"Request", "Cancel"}
        THEN BigEndian(m.idx) \o BigEndian(m.begin) \o BigEndian(m.length)
    ELSE IF m.t = "Piece" THEN BigEndian(m.idx) \o BigEndian(m.offset) \o Bytes(m.data)
    ELSE <<>>

\* one message was encoded into an empty stream and nothing was read yet
JustEncoded ==
    /\ Len(fx.sent) = 1
    /\ fx.src = <<>>
    /\ fx.before = <<>>
    /\ fx.got = <<>>

\* C23: the encoder writes, for a message other than KeepAlive, the
\* big-endian u32 1 + payload length, the id byte and the payload with its
\* numeric fields big-endian, and for KeepAlive the four bytes 00 00 00 00;
\* Request(12, 333, 4) becomes the 17 bytes 00 00 00 0d 06 00 00 00 0c
\* 00 00 01 4d 00 00 00 04.
C23_EncoderLayout ==
    JustEncoded =>
        LET m == fx.sent[1]
        IN  /\ m = KeepAlive => fx.wire = <<0, 0, 0, 0>>
            /\ m # KeepAlive =>
                    fx.wire = BigEndian(1 + Len(WirePayload(m))) \o <<WireId(m)>> \o WirePayload(m)
            /\ m = Request(12, 333, 4) =>
                    fx.wire = <<0, 0, 0, 13, 6, 0, 0, 0, 12, 0, 0, 1, 77, 0, 0, 0, 4>>

\* Request(12, 333, 4) was encoded
C23_Witness ==
    /\ JustEncoded
    /\ fx.sent[1] = Request(12, 333, 4)
    /\ Len(fx.wire) = 17

\* the handshake decoder was just called on the buffer `before`
ShakeCalled == fx.codec = "handshake" /\ fx.out.res # "nocall"

\* C12: encode(h) is the 68 bytes 0x13, "BitTorrent protocol", 8 zero bytes,
\* info_hash, peer_id; decoding a buffer that holds exactly them yields h.
C12_HandshakeRoundTrip ==
    (fx.sent # <<>> /\ IsHandshake(fx.sent[1])) =>
        LET h == fx.sent[1]
            e == encode_handshake(h)
        IN  /\ Len(e) = 68
            /\ e = <<19>> \o PROTOCOL_NAME \o Filled(0, 8) \o h.info_hash \o h.peer_id
            /\ (fx.out.res # "nocall" /\ fx.before = e)
                    => (fx.out.res = "some" /\ fx.out.msg = h)

\* a handshake decoded from a buffer holding its 68 bytes and nothing else
C12_Witness ==
    /\ ShakeCalled
    /\ fx.before = encode_handshake(Handshake(Filled(2, 20), Filled(45, 20)))
    /\ fx.out.msg = Handshake(Filled(2, 20), Filled(45, 20))
    /\ fx.src = <<>>

\* C17: the handshake decoder returns need-more on an empty buffer, an error
\* on a first byte other than 0x13, need-more without consuming on fewer than
\* 68 bytes that start with 0x13, and on 68 bytes or more the frame, having
\* consumed exactly 68 bytes and left the rest.
C17_HandshakeDecoder ==
    ShakeCalled => LET b == fx.before
       IN  IF b = <<>> THEN fx.out.res = "none" /\ fx.src = b
           ELSE IF b[1] # 19 THEN fx.out.res = "err"
           ELSE IF Len(b) < 68 THEN fx.out.res = "none" /\ fx.src = b
           ELSE /\ fx.out.res = "some"
                /\ fx.out.msg = [info_hash |-> SubSeq(b, 29, 48), peer_id |-> SubSeq(b, 49, 68),
                                 protocol_name |-> SubSeq(b, 2, 20), reserved |-> SubSeq(b, 21, 28)]
                /\ fx.src = SubSeq(b, 69, Len(b))

\* a frame decoded from a buffer that also held the peer's Bitfield message,
\* which stays in the buffer
C17_Witness ==
    /\ fx.out.res = "some"
    /\ Len(fx.before) = 68 + 6
    /\ fx.src = encode_message(Bitfield(<<255>>))

\* C16: the message decoder returns need-more and leaves the buffer as it is
\* while fewer than 4 bytes, or fewer than 4 + L bytes, are buffered (L being
\* the length the first 4 bytes give); it returns the message once exactly the
\* 4 + L bytes of its frame are buffered; L = 0 yields KeepAlive and consumes
\* 4 bytes.
C16_MessageDecoder ==
    (fx.out.res # "nocall") =>
        LET b == fx.before
        IN  IF Len(b) < 4 THEN fx.out.res = "none" /\ fx.src = b
            ELSE IF Len(b) < 4 + get_u32(b) THEN fx.out.res = "none" /\ fx.src = b
            ELSE /\ get_u32(b) = 0
                    => (fx.out.res = "some" /\ fx.out.msg = KeepAlive /\ fx.src = advance(b, 4))
                 /\ (fx.sent # <<>> /\ b = encode_message(fx.sent[1]))
                    => (Len(b) = 4 + get_u32(b) /\ fx.out.res = "some"
                          /\ fx.out.msg = fx.sent[1])

\* need-more on a Request frame that is one byte short
C16_Witness ==
    /\ fx.out.res = "none"
    /\ fx.sent = <<Request(256, MAX_BLOCK_SIZE, 1)>>
    /\ fx.before = front(encode_message(fx.sent[1]), 4 + 13 - 1)
    /\ fx.src = fx.before

\* C25: on a buffer that holds a whole frame of length prefix L the message
\* decoder yields a message and consumes exactly 4 + L bytes, or fails with
\* an error; it never panics and never leaves bytes of the frame behind, also
\* when L does not fit the id.
C25_DecoderRobust ==
    (fx.codec = "message" /\ fx.out.res # "nocall" /\ Len(fx.before) >= 4
        /\ Len(fx.before) >= 4 + get_u32(fx.before)) =>
            \/ fx.out.res = "some" /\ fx.src = advance(fx.before, 4 + get_u32(fx.before))
            \/ fx.out.res = "err"

\* C36: decoding the concatenation of the encodings of m1 .. mn by repeated
\* calls yields m1 .. mn in that order and ends on an empty buffer, however
\* the bytes are split on arrival: what is decoded is always a prefix of what
\* was sent, no call fails, and once all is sent and read and the decoder
\* asks for more, all was decoded and the buffer is empty.
C36_StreamInOrder ==
    /\ fx.op = "stream"
    /\ Len(fx.got) <= Len(fx.sent)
    /\ \A i \in 1..Len(fx.got) : fx.got[i] = fx.sent[i]
    /\ (fx.tosend = <<>> /\ fx.wire = <<>> /\ fx.out.res = "none")
            => (fx.got = fx.sent /\ fx.src = <<>>)

\* two different messages, the second one with a payload, decoded in order
\* from a buffer that held both
C36_Witness ==
    /\ Len(fx.sent) >= 2
    /\ fx.got = fx.sent
    /\ fx.got[1] = Request(12, 333, 4)
    /\ fx.got[2] = Piece(256, MAX_BLOCK_SIZE, Runs(<<1, 255>>))
    /\ fx.out.res = "none"
    /\ fx.src = <<>>

\* C22: the switch from handshake framing to message framing carries over
\* the read buffer and the write buffer as they are and leaves the
\* connection alone, so that what is decoded next is the message the peer
\* sent after its handshake, also when both arrived together, and a valid
\* handshake followed by a valid message never ends in a codec error.
C22_SwitchKeepsBuffers ==
    /\ [][(fx.codec = "handshake" /\ fx'.codec = "message")
            => (fx'.src = fx.src /\ fx'.write_buf = fx.write_buf /\ fx'.wire = fx.wire)]_vars
    /\ [](Len(fx.got) >= 2 => fx.got[2] = fx.sent[2])
    /\ []((fx.sent # <<>> /\ fx.codec = "message") => fx.out.res \notin {"err", "panic"})

\* the peer's handshake and Bitfield arrived together: the Bitfield frame was
\* in the read buffer at the switch, our handshake still in the write buffer,
\* and the Bitfield is the first message decoded
C22_Witness ==
    /\ fx.codec = "message"
    /\ fx.carried = encode_message(Bitfield(<<255>>))
    /\ fx.write_buf # <<>>
    /\ Len(fx.got) = 2
    /\ fx.got[2] = Bitfield(<<255>>)
    /\ fx.src = <<>>

-----------------------------------------------------------------------------
(* Claims on the bitfield view *)

\* two calls were made, fn1 then fn2, on the same index
Twice(fn1, fn2) ==
    /\ fx.op = "twice"
    /\ fx.first.fn = fn1
    /\ fx.last.fn = fn2
    /\ fx.first.index = fx.last.index

\* bit number k (0 = lowest) of a byte
BitOf(byte, k) == (byte \div Pow2(k)) % 2

\* C13: for an in-range index, has after set is true, has after clear is
\* false whether or not the bit was set, and a second set changes nothing.
C13_SetClearHas ==
    /\ Twice("set_piece", "has_piece") => fx.last.out = "true"
    /\ Twice("unset_piece", "has_piece") => fx.last.out = "false"
    /\ Twice("set_piece", "set_piece") => fx.bf = fx.last.before

\* has is false after the clear of a bit that was set
C13_Witness ==
    /\ Twice("unset_piece", "has_piece")
    /\ BitOf(fx.first.before[fx.first.index \div 8 + 1], 7 - (fx.first.index % 8)) = 1
    /\ fx.last.out = "false"

\* C37: set and clear change only the bit of their index: after either, has
\* is the same as before for every other index in range, the other seven
\* bits of the same byte among them.
C37_OnlyBitChanges ==
    LET c == fx.last
    IN  (c.fn \in {"set_piece", "unset_piece"} /\ c.out # "panic") =>
            /\ Len(fx.bf) = Len(c.before)
            /\ \A j \in 0..(8 * Len(c.before) - 1) :
                    j # c.index => (has_piece(fx.bf, j) <=> has_piece(c.before, j))

\* C14: has on an index whose byte index is at or beyond the length of the
\* buffer returns false and does not panic.
C14_HasOutOfRangeIsFalse ==
    (fx.last.fn = "has_piece" /\ fx.last.index \div 8 >= Len(fx.last.before))
        => fx.last.out = "false"

\* C15: has(i) is bit 7 - i mod 8 of byte i / 8, and set(i) on a zeroed
\* buffer leaves byte i / 8 = 0x80 >> (i mod 8) as the only non-zero byte:
\* 0x80 in byte 0 for index 0, 0x01 for index 7, 0x80 in byte 1 for index 8.
C15_MsbFirst ==
    LET c == fx.last
        i == c.index
        zero == Filled(0, Len(c.before))
    IN  /\ (c.fn = "has_piece" /\ c.out # "panic")
            => (c.out = "true" <=> BitOf(c.before[i \div 8 + 1], 7 - (i % 8)) = 1)
        /\ (c.fn = "set_piece" /\ c.out # "panic" /\ c.before = zero)
            => /\ fx.bf = [zero EXCEPT ![i \div 8 + 1] = 128 \div Pow2(i % 8)]
               /\ i = 0 => fx.bf[1] = 128
               /\ i = 7 => fx.bf[1] = 1
               /\ i = 8 => fx.bf[2] = 128

\* index 8 set on two zero bytes, then read back
C15_Witness ==
    /\ Twice("set_piece", "has_piece")
    /\ fx.first.index = 8
    /\ fx.first.before = <<0, 0>>
    /\ fx.bf = <<0, 128>>
    /\ fx.last.out = "true"

-----------------------------------------------------------------------------
(* Claims on the work list *)

RECURSIVE SumOfLengths(_)
SumOfLengths(q) == IF q = <<>> THEN 0 ELSE Head(q).length + SumOfLengths(Tail(q))

\* C18: the queue work_queue builds holds one descriptor per piece hash, in
\* index order, of length piece_length but for the last, whose length is
\* total_length - piece_length * (piece_count - 1); every length is in
\* 1..piece_length and the lengths add up to total_length; 1000 bytes in
\* pieces of 300 give (0,300), (1,300), (2,300), (3,100).
C18_WorkQueueBuilt ==
    (fx.op = "done") =>
        LET piece_count == Len(info.pieces)
        IN  /\ Len(queue) = piece_count
            /\ \A i \in 1..piece_count :
                  /\ queue[i].idx = i - 1
                  /\ queue[i].hash = info.pieces[i]
                  /\ queue[i].length =
                        IF i < piece_count THEN info.piece_length
                        ELSE info.length - info.piece_length * (piece_count - 1)
                  /\ 0 < queue[i].length
                  /\ queue[i].length <= info.piece_length
            /\ SumOfLengths(queue) = info.length
            /\ (info.length = 1000 /\ info.piece_length = 300)
                  => [i \in 1..Len(queue) |-> <<queue[i].idx, queue[i].length>>]
                        = <<<<0, 300>>, <<1, 300>>, <<2, 300>>, <<3, 100>>>>

\* the four descriptors of the 1000-byte file
C18_Witness ==
    /\ fx.op = "done"
    /\ info.length = 1000
    /\ Len(queue) = 4
    /\ queue[4].length = 100

=============================================================================
